---- MODULE Spec2Model ----
(***************************************************************************)
(* ZAD Education Platform: session state, authentication, impersonation,   *)
(* role routing, tenant-scoped views and the per-school vector stores.     *)
(*                                                                         *)
(* st.session_state is a Python dict: it is modelled as a function whose   *)
(* DOMAIN is the set of keys present.  Python None is NONE (0) for keys    *)
(* holding database ids (ids start at 1) and "None" for keys holding text. *)
(***************************************************************************)
EXTENDS Integers, Sequences, FiniteSets, TLC

VARIABLES
    ss,          \* st.session_state of the one browser session
    users,       \* table users: sequence, row id = index
    now,         \* time.time() / datetime.utcnow(), in seconds
    ret,         \* what the last handler returned / did
    g_fails,     \* history: credential failures since the last success or lockout
    g_lockEnd,   \* history: end of the lockout started by the fifth failure
    g_login,     \* history: the user whose credentials opened the session, 0 if none
    pre,         \* history: identity keys just before the last impersonation
    screen,      \* what the last script run rendered
    resources,   \* table resources
    online_sessions, \* table online_sessions
    grades,      \* table grades
    parent_children, \* table parent_children
    disk,        \* file system: vector-store path -> persisted chunks
    bots         \* live RAGChatBot / SocraticRAG instances

vars == <<ss, users, now, ret, g_fails, g_lockEnd, g_login, pre, screen, resources,
          online_sessions, grades, parent_children, disk, bots>>

authVars == <<ss, users, now, ret, g_fails, g_lockEnd, g_login>>
appVars  == <<pre, screen>>
dataVars == <<resources, online_sessions, grades, parent_children>>
ragVars  == <<disk, bots>>

-----------------------------------------------------------------------------
(* Bounds of the model *)

MaxTime == 64       \* the clock stops here
MaxUsers == 12      \* rows the users table may grow to
MaxRowId == 4       \* the highest id a new resources / online_sessions row may get
MaxGradeId == 6     \* the highest id a new grades row may get
MaxBots == 2        \* RAGChatBot / SocraticRAG instances alive at once
WaitStep == 30      \* seconds between two looks at the clock in the data views

-----------------------------------------------------------------------------
(* Python dict helpers for st.session_state *)

NONE == 0

Get(s, k, d) == IF k \in DOMAIN s THEN s[k] ELSE d

Put(s, k, v) == [x \in (DOMAIN s) \cup {k} |-> IF x = k THEN v ELSE s[x]]

Del(s, k) == [x \in (DOMAIN s) \ {k} |-> s[x]]

RECURSIVE PutAll(_, _)
PutAll(s, kvs) ==
    IF kvs = <<>> THEN s
    ELSE PutAll(Put(s, Head(kvs)[1], Head(kvs)[2]), Tail(kvs))

EmptySession == [x \in {} |-> NONE]

\* for key in list(d.keys()): del d[key]
RECURSIVE DelKeys(_, _)
DelKeys(s, keys) ==
    IF keys = {} THEN s
    ELSE LET key == CHOOSE k \in keys : TRUE
         IN  DelKeys(Del(s, key), keys \ {key})

-----------------------------------------------------------------------------
(* Password hashes.  Two schemes are in use: core/auth.py hashes with      *)
(* bcrypt, app.py and views/admin.py with werkzeug.  A stored hash is the  *)
(* scheme and the password it was made from.                               *)

hash_password(password) == [scheme |-> "bcrypt", pw |-> password]

generate_password_hash(password) == [scheme |-> "werkzeug", pw |-> password]

\* bcrypt.checkpw raises ValueError on a hash that is not bcrypt: caught, False
verify_password(stored_password, provided_password) ==
    /\ stored_password.scheme = "bcrypt"
    /\ stored_password.pw = provided_password

check_password_hash(stored_password, provided_password) ==
    /\ stored_password.scheme = "werkzeug"
    /\ stored_password.pw = provided_password

-----------------------------------------------------------------------------
(* The users table *)

User(username, email, full_name, hashed, role, school_id) ==
    [username |-> username, email |-> email, full_name |-> full_name,
     hashed_password |-> hashed, role |-> role, school_id |-> school_id,
     is_active |-> TRUE]

\* a row whose is_active was set to False outside the application
Inactive(user) == [user EXCEPT !.is_active = FALSE]

UsersInit ==
    << User("root", "admin@zad.edu", "Super Admin", generate_password_hash("admin123"), "super_admin", NONE),
       User("sam",  "sam@s1.edu",    "Sam",         generate_password_hash("pw"),       "school_admin", 1),
       User("tom",  "tom@s1.edu",    "Tom",         generate_password_hash("pw"),       "teacher", 1),
       User("sara", "sara@s1.edu",   "Sara",        generate_password_hash("pw"),       "student", 1),
       User("pat",  "pat@s1.edu",    "Pat",         generate_password_hash("pw"),       "parent", 1),
       User("boss", "boss@zad.edu",  "Boss",        hash_password("pw"),                "super_admin", NONE),
       User("tina", "tina@s2.edu",   "Tina",        generate_password_hash("pw"),       "teacher", 2),
       User("sid",  "sid@s2.edu",    "Sid",         hash_password("pw"),                "student", 2),
       User("ben",  "ben@s1.edu",    "Ben",         generate_password_hash("pw"),       "teacher", 1),
       User("kim",  "kim@s2.edu",    "Kim",         generate_password_hash("pw"),       "parent", 2),
       Inactive(User("ina", "ina@s1.edu", "Ina",    generate_password_hash("pw"),       "student", 1)) >>

UserIds == 1..Len(users)

\* session.query(User).filter(User.username == username).first(); 0 is None
UserByUsername(username) ==
    IF \E i \in UserIds : users[i].username = username
    THEN CHOOSE i \in UserIds :
            /\ users[i].username = username
            /\ \A j \in UserIds : users[j].username = username => i <= j
    ELSE NONE

-----------------------------------------------------------------------------
(* core/auth.py: rate limiting *)

MAX_LOGIN_ATTEMPTS == 5
LOCKOUT_DURATION_SECONDS == 60

_init_rate_limit_state(s) ==
    LET s1 == IF "_login_attempts" \in DOMAIN s THEN s ELSE Put(s, "_login_attempts", 0)
    IN  IF "_lockout_until" \in DOMAIN s1 THEN s1 ELSE Put(s1, "_lockout_until", 0)

_is_locked_out(s, t) == _init_rate_limit_state(s)["_lockout_until"] > t

\* the lockout starting one failure late
_record_failed_attempt_late(s, t) ==
    LET s1 == _init_rate_limit_state(s)
        s2 == Put(s1, "_login_attempts", s1["_login_attempts"] + 1)
    IN  IF s2["_login_attempts"] > MAX_LOGIN_ATTEMPTS
        THEN PutAll(s2, << <<"_lockout_until", t + LOCKOUT_DURATION_SECONDS>>,
                           <<"_login_attempts", 0>> >>)
        ELSE s2

_record_failed_attempt(s, t) ==
    LET s1 == _init_rate_limit_state(s)
        s2 == Put(s1, "_login_attempts", s1["_login_attempts"] + 1)
    IN  IF s2["_login_attempts"] >= MAX_LOGIN_ATTEMPTS
        THEN PutAll(s2, << <<"_lockout_until", t + LOCKOUT_DURATION_SECONDS>>,
                           <<"_login_attempts", 0>> >>)
        ELSE s2

_reset_rate_limit(s) ==
    PutAll(s, << <<"_login_attempts", 0>>, <<"_lockout_until", 0>> >>)

\* login writing the username into the session before the password is verified
login_early_write(s, t, username, password) ==
    LET s1   == _init_rate_limit_state(s)
        uid  == UserByUsername(username)
    IN  IF _is_locked_out(s, t)
        THEN [ss |-> s1, result |-> FALSE, checked |-> FALSE]
        ELSE IF uid # NONE /\ verify_password(users[uid].hashed_password, password)
        THEN [ss |-> PutAll(_reset_rate_limit(s1),
                        << <<"logged_in", TRUE>>, <<"authenticated", TRUE>>,
                           <<"user_id", uid>>, <<"username", users[uid].username>>,
                           <<"user_role", users[uid].role>>,
                           <<"school_id", users[uid].school_id>> >>),
              result |-> TRUE, checked |-> TRUE]
        ELSE [ss |-> Put(_record_failed_attempt(s1, t), "username", username),
              result |-> FALSE, checked |-> TRUE]

(* core/auth.py: login(username, password) run on session s at time t.     *)
(* The result is the session it leaves, the value returned and whether the *)
(* credentials were looked at.                                             *)
login(s, t, username, password) ==
    LET s1   == _init_rate_limit_state(s)
        uid  == UserByUsername(username)
    IN  IF _is_locked_out(s, t)
        THEN [ss |-> s1, result |-> FALSE, checked |-> FALSE]
        ELSE IF uid # NONE /\ verify_password(users[uid].hashed_password, password)
        THEN [ss |-> PutAll(_reset_rate_limit(s1),
                        << <<"logged_in", TRUE>>, <<"authenticated", TRUE>>,
                           <<"user_id", uid>>, <<"username", users[uid].username>>,
                           <<"user_role", users[uid].role>>,
                           <<"school_id", users[uid].school_id>> >>),
              result |-> TRUE, checked |-> TRUE]
        ELSE [ss |-> _record_failed_attempt(s1, t), result |-> FALSE, checked |-> TRUE]

\* logout() that spares the keys of the rate limiter
logout_keeps_rate_limit(s) ==
    DelKeys(s, {k \in DOMAIN s : k \notin {"_login_attempts", "_lockout_until"}})

\* core/auth.py: logout()
logout(s) == DelKeys(s, DOMAIN s)

\* core/auth.py: register_user; the table it leaves and the success flag
register_user(username, password, role, school_id) ==
    IF UserByUsername(username) # NONE
    THEN [users |-> users, ok |-> FALSE]
    ELSE [users |-> Append(users, User(username, "None", "None",
                                       hash_password(password), role, school_id)),
          ok |-> TRUE]

-----------------------------------------------------------------------------
(* views/super_admin.py: the access check *)

\* str.lower() on the usernames of the model
Lower(str) ==
    CASE str = "Taha"  -> "taha"
      [] str = "Admin" -> "admin"
      [] OTHER         -> str

is_super_admin(s) ==
    LET username  == Lower(Get(s, "username", ""))
        user_role == Get(s, "user_role", "")
    IN  \/ username \in {"taha", "admin"}
        \/ user_role \in {"god_mode", "super_admin", "admin"}

-----------------------------------------------------------------------------
(* What a script run put on the screen: the handler that ran, the page it *)
(* showed, the dashboards and errors rendered, the ids of the rows listed, *)
(* their order where the query orders them, the students offered for       *)
(* selection and the time of the run.                                      *)
Screen(kind, page, dashboards, errors, shown, order, students, at) ==
    [kind |-> kind, page |-> page, dashboards |-> dashboards, errors |-> errors,
     shown |-> shown, order |-> order, students |-> students, at |-> at]

Page(kind, page) == Screen(kind, page, {}, {}, {}, <<>>, {}, 0)

NoRet(op) == [op |-> op, result |-> FALSE, checked |-> FALSE, creds |-> FALSE]

-----------------------------------------------------------------------------
(* Inputs typed into the login and registration forms *)

LoginNames == {"sid", "boss", "tom", "Taha", "zed"}
Passwords  == {"pw", "bad"}
RegNames   == {"Taha", "sara"}
RegPasswords == {"pw"}
SchoolIds  == {1, 2}

IdentKeys == {"logged_in", "authenticated", "user_id", "username", "user_role", "school_id"}

Ident(s) == [k \in IdentKeys \cap DOMAIN s |-> s[k]]

\* The login form is on screen until the session is authenticated
LoginFormShown == ~Get(ss, "authenticated", FALSE)

\* history: the credentials name an existing user and verify against the stored hash
CredsOK(username, password) ==
    \E i \in UserIds : /\ users[i].username = username
                       /\ i = UserByUsername(username)
                       /\ verify_password(users[i].hashed_password, password)

(* ui/ui_auth.py show_login_form, login tab submitted *)
SubmitLogin(username, password) ==
    /\ LoginFormShown
    /\ LET r == login(ss, now, username, password)
       IN  /\ ss' = IF r.result
                    THEN PutAll(r.ss, << <<"authenticated", TRUE>>, <<"username", username>> >>)
                    ELSE r.ss
           /\ ret' = [op |-> "login", result |-> r.result, checked |-> r.checked,
                   creds |-> CredsOK(username, password)]
           /\ screen' = IF r.result THEN Page("auth", "home") ELSE Page("auth", "login_form")
    /\ IF now < g_lockEnd
       THEN UNCHANGED <<g_fails, g_lockEnd>>
       ELSE IF CredsOK(username, password)
       THEN g_fails' = 0 /\ g_lockEnd' = g_lockEnd
       ELSE IF g_fails + 1 = MAX_LOGIN_ATTEMPTS
       THEN g_fails' = 0 /\ g_lockEnd' = now + LOCKOUT_DURATION_SECONDS
       ELSE g_fails' = g_fails + 1 /\ g_lockEnd' = g_lockEnd
    /\ g_login' = IF login(ss, now, username, password).result
                THEN UserByUsername(username) ELSE g_login
    /\ UNCHANGED <<users, now, pre>>
    /\ UNCHANGED dataVars
    /\ UNCHANGED ragVars

(* ui/ui_auth.py show_login_form, registration tab submitted *)
SubmitRegister(username, password, school_id) ==
    /\ LoginFormShown
    /\ Len(users) < MaxUsers
    /\ LET r == register_user(username, password, "student", school_id)
       IN  /\ users' = r.users
           /\ ret' = [op |-> "register", result |-> r.ok, checked |-> FALSE, creds |-> FALSE]
    /\ screen' = Page("auth", "login_form")
    /\ UNCHANGED <<ss, now, g_fails, g_lockEnd, g_login, pre>>
    /\ UNCHANGED dataVars
    /\ UNCHANGED ragVars

(* views/super_admin.py show_super_admin_dashboard, one script run *)
ShowSuperAdminDashboard ==
    /\ Get(ss, "authenticated", FALSE)
    /\ screen' = IF is_super_admin(ss)
                 THEN Screen("super_admin", "super_admin_tabs", {"super_admin"}, {}, {}, <<>>, {}, 0)
                 ELSE Screen("super_admin", "access_denied", {}, {"Access Denied"}, {}, <<>>, {}, 0)
    /\ ret' = [op |-> "super_admin", result |-> is_super_admin(ss), checked |-> FALSE, creds |-> FALSE]
    /\ UNCHANGED <<ss, users, now, g_fails, g_lockEnd, g_login, pre>>
    /\ UNCHANGED dataVars
    /\ UNCHANGED ragVars

(* core/auth.py logout(): the session is emptied, the login form is back *)
AuthLogout ==
    /\ Get(ss, "authenticated", FALSE)
    /\ ss' = logout(ss)
    /\ ret' = [op |-> "logout", result |-> TRUE, checked |-> FALSE, creds |-> FALSE]
    /\ screen' = Page("auth", "login_form")
    /\ g_login' = NONE
    /\ UNCHANGED <<users, now, g_fails, g_lockEnd, pre>>
    /\ UNCHANGED dataVars
    /\ UNCHANGED ragVars

(* time passes *)
Tick ==
    /\ now < MaxTime
    /\ now' = now + 1
    /\ UNCHANGED <<ss, users, ret, g_fails, g_lockEnd, g_login, pre, screen>>
    /\ UNCHANGED dataVars
    /\ UNCHANGED ragVars


-----------------------------------------------------------------------------
(* Tables of models.py, as sets of rows *)

Resource(id, teacher_id, school_id) ==
    [id |-> id, teacher_id |-> teacher_id, school_id |-> school_id]

OnlineSession(id, teacher_id, school_id, scheduled_time) ==
    [id |-> id, teacher_id |-> teacher_id, school_id |-> school_id,
     scheduled_time |-> scheduled_time]

Grade(id, student_id, school_id) ==
    [id |-> id, student_id |-> student_id, school_id |-> school_id]

ParentChild(parent_id, child_id) == [parent_id |-> parent_id, child_id |-> child_id]

ResourcesInit == {Resource(1, 3, 1), Resource(2, 7, 2), Resource(3, 9, 1)}

OnlineSessionsInit ==
    {OnlineSession(1, 3, 1, 30), OnlineSession(2, 7, 2, 60), OnlineSession(3, 9, 1, 60)}

GradesInit == {Grade(1, 4, 1), Grade(2, 8, 2), Grade(3, 4, 1), Grade(4, 3, 1)}

\* the parent_children table is seeded outside the application: Pat is linked
\* to a student, to a teacher and to a student of another school, Kim to nobody
ParentChildrenInit == {ParentChild(5, 4), ParentChild(5, 3), ParentChild(5, 8)}

\* the id an INTEGER PRIMARY KEY column gives the next row
NextId(table) ==
    IF table = {} THEN 1
    ELSE 1 + CHOOSE m \in {r.id : r \in table} : \A r \in table : r.id <= m

-----------------------------------------------------------------------------
(* app.py: login *)

\* session.query(User).filter(User.email == email).first()
UserByEmail(email) ==
    IF \E i \in UserIds : users[i].email = email
    THEN CHOOSE i \in UserIds :
            /\ users[i].email = email
            /\ \A j \in UserIds : users[j].email = email => i <= j
    ELSE NONE

authenticate_user(s, email, password) ==
    LET uid == UserByEmail(email)
    IN  IF uid # NONE /\ check_password_hash(users[uid].hashed_password, password)
        THEN PutAll(s, << <<"logged_in", TRUE>>, <<"user_id", uid>>,
                          <<"user_name", users[uid].full_name>>,
                          <<"email", users[uid].email>>,
                          <<"role", users[uid].role>>,
                          <<"school_id", users[uid].school_id>>,
                          <<"is_impersonating", FALSE>> >>)
        ELSE s

-----------------------------------------------------------------------------
(* views/admin.py *)

\* new_password = "reset123"
RESET_PASSWORD == "reset123"

AdminRoles == {"super_admin", "school_admin", "admin"}

\* the page show_admin_dashboard renders for session s
show_admin_dashboard(s) ==
    IF Get(s, "role", "None") \notin AdminRoles
    THEN "access_denied"
    ELSE IF Get(s, "selected_school_id", NONE) = NONE
    THEN "admin_master"
    ELSE "admin_detail"

_impersonate_user(s, uid) ==
    PutAll(s, << <<"original_user_id", Get(s, "user_id", NONE)>>,
                 <<"original_role", Get(s, "role", "None")>>,
                 <<"original_user_name", Get(s, "user_name", "None")>>,
                 <<"original_school_id", Get(s, "school_id", NONE)>>,
                 <<"user_id", uid>>,
                 <<"role", users[uid].role>>,
                 <<"user_name", users[uid].full_name>>,
                 <<"email", users[uid].email>>,
                 <<"school_id", users[uid].school_id>>,
                 <<"is_impersonating", TRUE>>,
                 <<"selected_school_id", NONE>> >>)

-----------------------------------------------------------------------------
(* app.py: session helpers *)

OriginalKeys == <<"original_user_id", "original_role", "original_user_name", "original_school_id">>

RECURSIVE DelAll(_, _)
DelAll(s, ks) == IF ks = <<>> THEN s ELSE DelAll(Del(s, Head(ks)), Tail(ks))

\* an exit that leaves the impersonated user's school in the session
_exit_impersonation_keeps_school(s) ==
    DelAll(PutAll(s, << <<"user_id", Get(s, "original_user_id", NONE)>>,
                        <<"role", Get(s, "original_role", "None")>>,
                        <<"user_name", Get(s, "original_user_name", "None")>>,
                        <<"is_impersonating", FALSE>> >>),
           OriginalKeys)

_exit_impersonation(s) ==
    DelAll(PutAll(s, << <<"user_id", Get(s, "original_user_id", NONE)>>,
                        <<"role", Get(s, "original_role", "None")>>,
                        <<"user_name", Get(s, "original_user_name", "None")>>,
                        <<"school_id", Get(s, "original_school_id", NONE)>>,
                        <<"is_impersonating", FALSE>> >>),
           OriginalKeys)

\* app.py: _logout()
_logout(s) == DelKeys(s, DOMAIN s)

-----------------------------------------------------------------------------
(* app.py: the role views *)

\* all the orders in which the rows of a finite set can be returned
Orders(S) ==
    {q \in [1..Cardinality(S) -> S] : \A i, j \in 1..Cardinality(S) : q[i] = q[j] => i = j}

Ids(q) == [i \in DOMAIN q |-> q[i].id]

\* .order_by(OnlineSession.scheduled_time.asc()): ties come in any order
AscByTime(S) ==
    {q \in Orders(S) : \A i, j \in DOMAIN q : i < j => q[i].scheduled_time <= q[j].scheduled_time}

\* _show_student_grades: the rows queried
StudentGrades(s) == {g \in grades : g.student_id = Get(s, "user_id", NONE)}

\* _show_student_resources: the rows queried
StudentResources(s) == {r \in resources : r.school_id = Get(s, "school_id", NONE)}

\* the classes of the school, past ones included
StudentClasses_with_past(s, t) ==
    {c \in online_sessions : c.school_id = Get(s, "school_id", NONE)}

\* _show_student_classes: the rows queried at time t
StudentClasses(s, t) ==
    {c \in online_sessions : c.school_id = Get(s, "school_id", NONE) /\ c.scheduled_time >= t}

\* the links of every parent
ParentLinks_all(s) == parent_children

\* _show_parent_view: the links of the parent
ParentLinks(s) == {l \in parent_children : l.parent_id = Get(s, "user_id", NONE)}

\* _show_parent_view: the children fetched
ParentStudents(s) ==
    {i \in UserIds : /\ i \in {l.child_id : l \in ParentLinks(s)}
                     /\ users[i].role = "student"}

\* next((s for s in students if s.full_name == selected_child), None)
SelectedStudent(s, selected_child) ==
    LET named == {i \in ParentStudents(s) : users[i].full_name = selected_child}
    IN  IF named = {} THEN NONE
        ELSE CHOOSE i \in named : \A j \in named : i <= j

\* show_teacher_tools: the teacher's own resources listed in the library tab
TeacherResources(s) == {r \in resources : r.teacher_id = Get(s, "user_id", NONE)}

MenuOptions(role) ==
    CASE role \in AdminRoles -> {"schools", "users", "statistics"}
      [] role = "teacher"    -> {"vision_grader", "library", "online_classes"}
      [] role = "student"    -> {"my_grades", "resources", "upcoming_classes"}
      [] role = "parent"     -> {"my_children", "child_grades"}
      [] OTHER               -> {"-"}

\* show_main_application, sidebar: the radio of the role stores its choice
Sidebar(s, menu) ==
    LET role == Get(s, "role", "None")
    IN  CASE role \in AdminRoles -> Put(s, "admin_menu", menu)
          [] role = "teacher"    -> Put(s, "teacher_menu", menu)
          [] role = "student"    -> Put(s, "student_menu", menu)
          [] role = "parent"     -> Put(s, "parent_menu", menu)
          [] OTHER               -> s

\* the names the parent's selectbox offers
ChildOptions(s) ==
    IF Get(s, "role", "None") = "parent" /\ ParentStudents(s) # {}
    THEN {users[i].full_name : i \in ParentStudents(s)}
    ELSE {"-"}

\* the orders the classes query may return its rows in
ClassOrders(s, t) ==
    IF Get(s, "role", "None") = "student" /\ Get(s, "student_menu", "my_grades") = "upcoming_classes"
    THEN AscByTime(StudentClasses(s, t))
    ELSE {<<>>}

\* show_main_application, main content routing, for a session s after the sidebar
show_main_application(s, selected_child, classes, t) ==
    LET role == Get(s, "role", "None")
    IN  CASE role \in AdminRoles ->
               Screen("main", show_admin_dashboard(s), {"admin"}, {}, {}, <<>>, {}, t)
          [] role = "teacher" ->
               IF Get(s, "teacher_menu", "vision_grader") = "vision_grader"
               THEN Screen("main", "vision_grader", {"teacher"}, {}, {}, <<>>, {}, t)
               ELSE Screen("main", "teacher_tools", {"teacher"}, {},
                           {r.id : r \in TeacherResources(s)}, <<>>, {}, t)
          [] role = "student" ->
               LET menu == Get(s, "student_menu", "my_grades")
               IN  CASE menu = "my_grades" ->
                          Screen("main", "student_grades", {"student"}, {},
                                 {g.id : g \in StudentGrades(s)}, <<>>, {}, t)
                     [] menu = "resources" ->
                          Screen("main", "student_resources", {"student"}, {},
                                 {r.id : r \in StudentResources(s)}, <<>>, {}, t)
                     [] OTHER ->
                          Screen("main", "student_classes", {"student"}, {},
                                 {c.id : c \in StudentClasses(s, t)}, Ids(classes), {}, t)
          [] role = "parent" ->
               IF ParentLinks(s) = {}
               THEN Screen("main", "parent_no_children", {"parent"}, {}, {}, <<>>, {}, t)
               ELSE LET selected_student == SelectedStudent(s, selected_child)
                    IN  Screen("main", "parent_grades", {"parent"}, {},
                               IF selected_student = NONE THEN {}
                               ELSE {g.id : g \in {x \in grades : x.student_id = selected_student}},
                               <<>>, ParentStudents(s), t)
          [] OTHER ->
               Screen("main", "unknown_role", {}, {"Unknown role"}, {}, <<>>, {}, t)

\* a main() that routes by role without looking at logged_in
main_no_login_check(s, menu, selected_child, classes, t) ==
    LET s1 == Put(s, "db_initialized", TRUE)
    IN  [ss |-> Sidebar(s1, menu),
         screen |-> show_main_application(Sidebar(s1, menu), selected_child, classes, t)]

\* main(): the session it leaves (db_initialized) and the screen of the run
main(s, menu, selected_child, classes, t) ==
    LET s1 == Put(s, "db_initialized", TRUE)
    IN  IF ~Get(s1, "logged_in", FALSE)
        THEN [ss |-> s1, screen |-> Page("main", "login_page")]
        ELSE [ss |-> Sidebar(s1, menu),
              screen |-> show_main_application(Sidebar(s1, menu), selected_child, classes, t)]

-----------------------------------------------------------------------------
(* app.py and views/admin.py: the handlers of the one session *)

LoggedIn == Get(ss, "logged_in", FALSE)

AppEmails == {"admin@zad.edu", "sam@s1.edu", "tom@s1.edu", "sara@s1.edu", "pat@s1.edu", "tina@s2.edu", "no@one"}
AppPasswords == {"admin123", "pw"}
SchoolNames == [i \in SchoolIds |-> IF i = 1 THEN "School One" ELSE "School Two"]

ImpersonationKeys == {"user_id", "role", "user_name", "school_id"}

Restrict(s, keys) == [k \in keys \cap DOMAIN s |-> s[k]]

(* show_login_page: the login form submitted *)
AppLogin(email, password) ==
    /\ ~LoggedIn
    /\ ss' = authenticate_user(ss, email, password)
    /\ ret' = [NoRet("app_login") EXCEPT !.result = Get(ss', "logged_in", FALSE)]
    /\ screen' = IF Get(ss', "logged_in", FALSE)
                 THEN Page("rerun", "rerun")
                 ELSE Screen("login", "login_page", {}, {"Invalid email or password"}, {}, <<>>, {}, 0)
    /\ g_login' = IF Get(ss', "logged_in", FALSE) THEN UserByEmail(email) ELSE g_login
    /\ UNCHANGED <<users, now, g_fails, g_lockEnd, pre>>
    /\ UNCHANGED dataVars
    /\ UNCHANGED ragVars

(* main(): one script run with no button pressed *)
MainRun ==
    /\ \E menu \in MenuOptions(Get(ss, "role", "None")) :
       \E selected_child \in ChildOptions(ss) :
       \E classes \in ClassOrders(Sidebar(ss, menu), now) :
          LET r == main(ss, menu, selected_child, classes, now)
          IN  /\ ss' = r.ss
              /\ screen' = r.screen
    /\ ret' = NoRet("main")
    /\ UNCHANGED <<users, now, g_fails, g_lockEnd, g_login, pre>>
    /\ UNCHANGED dataVars
    /\ UNCHANGED ragVars

(* _render_schools_tab: the Open button of a school *)
OpenSchool(school_id) ==
    /\ LoggedIn
    /\ show_admin_dashboard(ss) = "admin_master"
    /\ ss' = PutAll(ss, << <<"selected_school_id", school_id>>,
                           <<"selected_school_name", SchoolNames[school_id]>> >>)
    /\ ret' = NoRet("open_school")
    /\ screen' = Page("rerun", "rerun")
    /\ UNCHANGED <<users, now, g_fails, g_lockEnd, g_login, pre>>
    /\ UNCHANGED dataVars
    /\ UNCHANGED ragVars

(* _show_school_details_dashboard: the Back button *)
BackToMaster ==
    /\ LoggedIn
    /\ show_admin_dashboard(ss) = "admin_detail"
    /\ ss' = PutAll(ss, << <<"selected_school_id", NONE>>,
                           <<"selected_school_name", "None">> >>)
    /\ ret' = NoRet("back")
    /\ screen' = Page("rerun", "rerun")
    /\ UNCHANGED <<users, now, g_fails, g_lockEnd, g_login, pre>>
    /\ UNCHANGED dataVars
    /\ UNCHANGED ragVars

(* _render_users_tab: the Login As button of a listed user *)
ImpersonateUser(uid) ==
    /\ LoggedIn
    /\ show_admin_dashboard(ss) = "admin_master"
    /\ uid # Get(ss, "user_id", NONE)
    /\ ss' = _impersonate_user(ss, uid)
    /\ pre' = Restrict(ss, ImpersonationKeys)
    /\ ret' = NoRet("impersonate")
    /\ screen' = Page("rerun", "rerun")
    /\ UNCHANGED <<users, now, g_fails, g_lockEnd, g_login>>
    /\ UNCHANGED dataVars
    /\ UNCHANGED ragVars

(* show_main_application, sidebar: the Exit Impersonation button *)
ExitImpersonation ==
    /\ LoggedIn
    /\ Get(ss, "is_impersonating", FALSE)
    /\ ss' = _exit_impersonation(ss)
    /\ pre' = EmptySession
    /\ ret' = NoRet("exit_impersonation")
    /\ screen' = Page("rerun", "rerun")
    /\ UNCHANGED <<users, now, g_fails, g_lockEnd, g_login>>
    /\ UNCHANGED dataVars
    /\ UNCHANGED ragVars

(* show_main_application, sidebar: the Logout button *)
AppLogout ==
    /\ LoggedIn
    /\ ss' = _logout(ss)
    /\ pre' = EmptySession
    /\ ret' = NoRet("app_logout")
    /\ screen' = Page("rerun", "rerun")
    /\ g_login' = NONE
    /\ UNCHANGED <<users, now, g_fails, g_lockEnd>>
    /\ UNCHANGED dataVars
    /\ UNCHANGED ragVars

\* _reset_password: the users table it leaves
_reset_password(table, user_id) ==
    IF user_id \in DOMAIN table
    THEN [table EXCEPT ![user_id].hashed_password = generate_password_hash(RESET_PASSWORD)]
    ELSE table

(* _render_users_tab: the Reset PW button of a listed user *)
ResetPassword(uid) ==
    /\ LoggedIn
    /\ show_admin_dashboard(ss) = "admin_master"
    /\ uid \in UserIds
    /\ users' = _reset_password(users, uid)
    /\ ret' = [NoRet("reset_password") EXCEPT !.result = TRUE]
    /\ screen' = Screen("main", "admin_master", {"admin"}, {}, {}, <<>>, {}, now)
    /\ UNCHANGED <<ss, now, g_fails, g_lockEnd, g_login, pre>>
    /\ UNCHANGED dataVars
    /\ UNCHANGED ragVars

(* _render_diagnostics_tab: the Reset Session button keeps logged_in only *)
ResetSession ==
    /\ LoggedIn
    /\ show_admin_dashboard(ss) = "admin_master"
    /\ ss' = Restrict(ss, {"logged_in"})
    /\ pre' = EmptySession
    /\ ret' = NoRet("reset_session")
    /\ screen' = Page("rerun", "rerun")
    /\ UNCHANGED <<users, now, g_fails, g_lockEnd, g_login>>
    /\ UNCHANGED dataVars
    /\ UNCHANGED ragVars

-----------------------------------------------------------------------------
(* views/teacher_tools.py *)

\* show_teacher_tools is on screen: a teacher who left the vision grader
TeacherToolsShown ==
    /\ LoggedIn
    /\ Get(ss, "role", "None") = "teacher"
    /\ Get(ss, "teacher_menu", "vision_grader") # "vision_grader"

\* _save_resource: teacher_id and school_id are NOT NULL, a None is rolled back
_save_resource(table, teacher_id, school_id) ==
    IF school_id = NONE \/ teacher_id = NONE THEN table
    ELSE table \cup {Resource(NextId(table), teacher_id, school_id)}

_save_online_session(table, teacher_id, school_id, scheduled_time) ==
    IF school_id = NONE \/ teacher_id = NONE THEN table
    ELSE table \cup {OnlineSession(NextId(table), teacher_id, school_id, scheduled_time)}

\* a delete that checks the school but not the teacher
_delete_resource_any_teacher(table, s, resource_id) ==
    table \ {r \in table : /\ r.id = resource_id
                           /\ r.school_id = Get(s, "school_id", NONE)}

\* _delete_resource: the table it leaves
_delete_resource(table, s, resource_id) ==
    table \ {r \in table : /\ r.id = resource_id
                           /\ r.school_id = Get(s, "school_id", NONE)
                           /\ r.teacher_id = Get(s, "user_id", NONE)}

\* _delete_online_session: the table it leaves
_delete_online_session(table, s, session_id) ==
    table \ {r \in table : /\ r.id = session_id
                           /\ r.school_id = Get(s, "school_id", NONE)
                           /\ r.teacher_id = Get(s, "user_id", NONE)}

ToolsScreen(deleted, msg) ==
    IF deleted THEN Page("rerun", "rerun")
    ELSE Screen("teacher_tools", "teacher_tools", {"teacher"}, {msg}, {}, <<>>, {}, now)

SaveResource ==
    /\ TeacherToolsShown
    /\ NextId(resources) <= MaxRowId
    /\ resources' = _save_resource(resources, Get(ss, "user_id", NONE), Get(ss, "school_id", NONE))
    /\ ret' = [op |-> "save_resource", result |-> resources' # resources, found |-> FALSE]
    /\ screen' = Page("teacher_tools", "teacher_tools")
    /\ UNCHANGED <<ss, users, now, g_fails, g_lockEnd, g_login, pre, online_sessions, grades, parent_children>>
    /\ UNCHANGED ragVars

DeleteResource(resource_id) ==
    /\ TeacherToolsShown
    /\ resources' = _delete_resource(resources, ss, resource_id)
    /\ ret' = [op |-> "delete_resource", result |-> resources' # resources,
               found |-> \E r \in resources : r.id = resource_id]
    /\ screen' = ToolsScreen(resources' # resources, "Resource not found or access denied")
    /\ UNCHANGED <<ss, users, now, g_fails, g_lockEnd, g_login, pre, online_sessions, grades, parent_children>>
    /\ UNCHANGED ragVars

SaveOnlineSession(scheduled_time) ==
    /\ TeacherToolsShown
    /\ NextId(online_sessions) <= MaxRowId
    /\ online_sessions' = _save_online_session(online_sessions, Get(ss, "user_id", NONE),
                                               Get(ss, "school_id", NONE), scheduled_time)
    /\ ret' = [op |-> "save_online_session", result |-> online_sessions' # online_sessions, found |-> FALSE]
    /\ screen' = Page("teacher_tools", "teacher_tools")
    /\ UNCHANGED <<ss, users, now, g_fails, g_lockEnd, g_login, pre, resources, grades, parent_children>>
    /\ UNCHANGED ragVars

DeleteOnlineSession(session_id) ==
    /\ TeacherToolsShown
    /\ online_sessions' = _delete_online_session(online_sessions, ss, session_id)
    /\ ret' = [op |-> "delete_online_session", result |-> online_sessions' # online_sessions,
               found |-> \E r \in online_sessions : r.id = session_id]
    /\ screen' = ToolsScreen(online_sessions' # online_sessions, "Session not found or access denied")
    /\ UNCHANGED <<ss, users, now, g_fails, g_lockEnd, g_login, pre, resources, grades, parent_children>>
    /\ UNCHANGED ragVars

(* time passes between script runs *)
Wait ==
    /\ now + WaitStep <= MaxTime
    /\ now' = now + WaitStep
    /\ UNCHANGED <<ss, users, ret, g_fails, g_lockEnd, g_login, pre, screen>>
    /\ UNCHANGED dataVars
    /\ UNCHANGED ragVars

-----------------------------------------------------------------------------
(* views/vision_grader.py *)

\* show_vision_grader is on screen: a teacher on the vision grader menu entry
VisionGraderShown ==
    /\ LoggedIn
    /\ Get(ss, "role", "None") = "teacher"
    /\ Get(ss, "teacher_menu", "vision_grader") = "vision_grader"

AIKeys == <<"ai_analysis_done", "ai_suggested_score", "ai_suggested_feedback",
            "selected_subject", "max_score">>

\* the max_score number_input and what _mock_ai_analysis may suggest for it
MaxScores == {10}
AIScores(max_score) == {(6 * max_score) \div 10, (9 * max_score) \div 10}

\* _render_grading_form: the students query without the is_active filter
GradingStudents_with_inactive(school_id) ==
    {i \in UserIds : /\ users[i].school_id = school_id
                     /\ users[i].role = "student"}

\* _render_grading_form: the students query
GradingStudents(school_id) ==
    {i \in UserIds : /\ users[i].school_id = school_id
                     /\ users[i].role = "student"
                     /\ users[i].is_active = TRUE}

\* f"{s.full_name} ({s.email})"
StudentLabel(i) == <<users[i].full_name, users[i].email>>

\* student_options: a later student of the same label replaces an earlier one
student_options(school_id) ==
    [l \in {StudentLabel(i) : i \in GradingStudents(school_id)} |->
        CHOOSE i \in GradingStudents(school_id) :
            /\ StudentLabel(i) = l
            /\ \A j \in GradingStudents(school_id) : StudentLabel(j) = l => j <= i]

\* session.add(new_grade); session.commit(): school_id is NOT NULL, a None
\* raises and is rolled back
_save_grade(table, student_id, school_id) ==
    IF school_id = NONE THEN table
    ELSE table \cup {Grade(NextId(table), student_id, school_id)}

(* show_vision_grader: the Analyze with AI button on an uploaded image *)
AnalyzeWithAI(max_score, score) ==
    /\ VisionGraderShown
    /\ ss' = PutAll(ss, << <<"ai_suggested_score", score>>,
                           <<"ai_suggested_feedback", "feedback">>,
                           <<"ai_analysis_done", TRUE>>,
                           <<"selected_subject", "Mathematics | math">>,
                           <<"max_score", max_score>> >>)
    /\ ret' = NoRet("analyze")
    /\ screen' = Screen("vision_grader", "vision_grader", {"teacher"}, {}, {}, <<>>,
                        GradingStudents(Get(ss, "school_id", NONE)), now)
    /\ UNCHANGED <<users, now, g_fails, g_lockEnd, g_login, pre>>
    /\ UNCHANGED dataVars
    /\ UNCHANGED ragVars

(* _render_grading_form: the grading form submitted with a student chosen *)
SubmitGrade(selected_student) ==
    /\ VisionGraderShown
    /\ Get(ss, "ai_analysis_done", FALSE)
    /\ GradingStudents(Get(ss, "school_id", NONE)) # {}
    /\ selected_student \in DOMAIN student_options(Get(ss, "school_id", NONE))
    /\ NextId(grades) <= MaxGradeId
    /\ grades' = _save_grade(grades,
                             student_options(Get(ss, "school_id", NONE))[selected_student],
                             Get(ss, "school_id", NONE))
    /\ ss' = IF grades' # grades THEN DelAll(ss, AIKeys) ELSE ss
    /\ ret' = [NoRet("save_grade") EXCEPT !.result = (grades' # grades)]
    /\ screen' = Screen("vision_grader", "vision_grader", {"teacher"},
                        IF grades' # grades THEN {} ELSE {"Error saving grade"},
                        grades' \ grades, <<>>,
                        GradingStudents(Get(ss, "school_id", NONE)), now)
    /\ UNCHANGED <<users, now, g_fails, g_lockEnd, g_login, pre, resources, online_sessions,
                   parent_children>>
    /\ UNCHANGED ragVars


-----------------------------------------------------------------------------
(* core/rag_engine.py and core/rag_socratic.py.  A vector store is the set *)
(* of chunks it holds; a chunk remembers the document it was cut from and  *)
(* the school of the instance it was ingested through.  NoStore is None.   *)

NoStore == [has |-> FALSE, chunks |-> {}]

Store(chunks) == [has |-> TRUE, chunks |-> chunks]

Chunk(doc, school_id) == [doc |-> doc, origin |-> school_id]

\* every instance reading and writing the same index directory
RAGPath_shared(school_id) == "faiss_index_"

\* RAGChatBot.__init__: f"faiss_index_{self.school_id}"
RAGPath(school_id) == "faiss_index_" \o ToString(school_id)

\* SocraticRAG.__init__: f"faiss_index_socratic_{self.school_id}"
SocraticPath(school_id) == "faiss_index_socratic_" \o ToString(school_id)

\* _load_vector_store: FAISS.load_local when the path exists
_load_vector_store(path) ==
    IF path \in DOMAIN disk THEN Store(disk[path]) ELSE NoStore

\* the instance __init__ builds
NewBot(kind, school_id) ==
    LET path == IF kind = "RAGChatBot" THEN RAGPath(school_id) ELSE SocraticPath(school_id)
    IN  [kind |-> kind, school_id |-> school_id, vector_store_path |-> path,
         vector_store |-> _load_vector_store(path)]

\* ingest_documents / ingest_pdf: add_documents or FAISS.from_documents
Ingested(bot, doc) ==
    Store(bot.vector_store.chunks \cup {Chunk(doc, bot.school_id)})

RagSchoolIds == {1, 2, 11}
Docs == {"d1", "d2"}

(* RAGChatBot(api_key, school_id) *)
CreateRAGChatBot(school_id) ==
    /\ Len(bots) < MaxBots
    /\ bots' = Append(bots, NewBot("RAGChatBot", school_id))
    /\ UNCHANGED <<disk, ss, users, now, ret, g_fails, g_lockEnd, g_login, pre, screen>>
    /\ UNCHANGED dataVars

(* SocraticRAG(api_key, school_id) *)
CreateSocraticRAG(school_id) ==
    /\ Len(bots) < MaxBots
    /\ bots' = Append(bots, NewBot("SocraticRAG", school_id))
    /\ UNCHANGED <<disk, ss, users, now, ret, g_fails, g_lockEnd, g_login, pre, screen>>
    /\ UNCHANGED dataVars

(* RAGChatBot.ingest_documents: ingest, then save_local *)
IngestDocuments(i, doc) ==
    /\ i \in DOMAIN bots
    /\ bots[i].kind = "RAGChatBot"
    /\ bots' = [bots EXCEPT ![i].vector_store = Ingested(bots[i], doc)]
    /\ disk' = Put(disk, bots[i].vector_store_path, Ingested(bots[i], doc).chunks)
    /\ UNCHANGED <<ss, users, now, ret, g_fails, g_lockEnd, g_login, pre, screen>>
    /\ UNCHANGED dataVars

(* SocraticRAG.ingest_pdf: ingest, then save_local *)
IngestPdf(i, doc) ==
    /\ i \in DOMAIN bots
    /\ bots[i].kind = "SocraticRAG"
    /\ bots' = [bots EXCEPT ![i].vector_store = Ingested(bots[i], doc)]
    /\ disk' = Put(disk, bots[i].vector_store_path, Ingested(bots[i], doc).chunks)
    /\ UNCHANGED <<ss, users, now, ret, g_fails, g_lockEnd, g_login, pre, screen>>
    /\ UNCHANGED dataVars

-----------------------------------------------------------------------------
Init ==
    /\ ss = EmptySession
    /\ users = UsersInit
    /\ now = 0
    /\ ret = NoRet("none")
    /\ g_fails = 0
    /\ g_lockEnd = 0
    /\ g_login = NONE
    /\ pre = EmptySession
    /\ screen = Page("auth", "login_form")
    /\ resources = ResourcesInit
    /\ online_sessions = OnlineSessionsInit
    /\ grades = GradesInit
    /\ parent_children = ParentChildrenInit
    /\ disk = EmptySession
    /\ bots = <<>>

NextAuth ==
    \/ \E u \in LoginNames, p \in Passwords : SubmitLogin(u, p)
    \/ \E u \in RegNames, p \in RegPasswords, sid \in SchoolIds : SubmitRegister(u, p, sid)
    \/ ShowSuperAdminDashboard
    \/ AuthLogout
    \/ Tick

SpecAuth == Init /\ [][NextAuth]_vars

NextApp ==
    \/ \E e \in AppEmails, p \in AppPasswords : AppLogin(e, p)
    \/ MainRun
    \/ \E sid \in SchoolIds : OpenSchool(sid)
    \/ BackToMaster
    \/ \E uid \in UserIds : ImpersonateUser(uid)
    \/ ExitImpersonation
    \/ AppLogout
    \/ ResetSession

Spec == Init /\ [][NextApp]_vars

DataEmails == {"tom@s1.edu", "sara@s1.edu", "pat@s1.edu", "tina@s2.edu", "kim@s2.edu"}
DataPasswords == {"pw"}
RowIds == 1..(MaxRowId + 1)
ScheduleTimes == {60}

NextData ==
    \/ \E e \in DataEmails, p \in DataPasswords : AppLogin(e, p)
    \/ MainRun
    \/ AppLogout
    \/ SaveResource
    \/ \E id \in RowIds : DeleteResource(id)
    \/ \E t \in ScheduleTimes : SaveOnlineSession(t)
    \/ \E id \in RowIds : DeleteOnlineSession(id)
    \/ Wait

SpecData == Init /\ [][NextData]_vars

NextRag ==
    \/ \E sid \in RagSchoolIds : CreateRAGChatBot(sid)
    \/ \E sid \in RagSchoolIds : CreateSocraticRAG(sid)
    \/ \E i \in 1..MaxBots, d \in Docs : IngestDocuments(i, d)
    \/ \E i \in 1..MaxBots, d \in Docs : IngestPdf(i, d)

SpecRag == Init /\ [][NextRag]_vars

TenantEmails == {"sam@s1.edu", "admin@zad.edu"}
TenantPasswords == {"pw", RESET_PASSWORD}
TenantTargets == {1, 3, 7}

NextTenant ==
    \/ \E e \in TenantEmails, p \in TenantPasswords : AppLogin(e, p)
    \/ MainRun
    \/ \E uid \in TenantTargets : ImpersonateUser(uid)
    \/ ExitImpersonation
    \/ \E uid \in TenantTargets : ResetPassword(uid)
    \/ AppLogout

SpecTenant == Init /\ [][NextTenant]_vars

GraderEmails == {"tom@s1.edu", "tina@s2.edu", "sara@s1.edu"}
\* the labels the selectbox can hold: one per row of the users table
StudentLabels == {<<UsersInit[i].full_name, UsersInit[i].email>> : i \in 1..Len(UsersInit)}

NextGrader ==
    \/ \E e \in GraderEmails, p \in DataPasswords : AppLogin(e, p)
    \/ MainRun
    \/ AppLogout
    \/ \E m \in MaxScores : \E sc \in AIScores(m) : AnalyzeWithAI(m, sc)
    \/ \E l \in StudentLabels : SubmitGrade(l)

SpecGrader == Init /\ [][NextGrader]_vars

(* core.auth.logout has no caller of its own: it is exported for any page  *)
(* of the application, so it is run here on the sessions both login paths  *)
(* and the admin dashboard can build.                                      *)
LogoutNames == {"sid"}
LogoutEmails == {"admin@zad.edu"}
LogoutTargets == {3, 4}

NextLogout ==
    \/ \E u \in LogoutNames, p \in Passwords : SubmitLogin(u, p)
    \/ \E e \in LogoutEmails, p \in AppPasswords : AppLogin(e, p)
    \/ MainRun
    \/ \E uid \in LogoutTargets : ImpersonateUser(uid)
    \/ ExitImpersonation
    \/ AuthLogout
    \/ AppLogout

SpecLogout == Init /\ [][NextLogout]_vars

-----------------------------------------------------------------------------
C1_RoundTrip ==
    [][ExitImpersonation =>
        /\ Restrict(ss', ImpersonationKeys) = pre
        /\ DOMAIN pre = ImpersonationKeys
        /\ ss'["is_impersonating"] = FALSE
        /\ \A i \in DOMAIN OriginalKeys : OriginalKeys[i] \notin DOMAIN ss'
      ]_vars

\* a school admin is back in their own session after viewing as a user of another school
C1_Witness ==
    /\ ret.op = "exit_impersonation"
    /\ Get(ss, "role", "None") = "school_admin"
    /\ Get(ss, "school_id", NONE) = 1
    /\ Get(ss, "email", "None") = "tina@s2.edu"

(* C2: the parent view offers only students linked to the session's user   *)
(* in parent_children and shows only grades of those students; a parent    *)
(* without links is offered no student and shown no grade.                 *)
C2_ParentOwnChildren ==
    (screen.kind = "main" /\ Get(ss, "role", "None") = "parent") =>
        LET own == {i \in UserIds :
                      /\ users[i].role = "student"
                      /\ \E l \in parent_children :
                            l.parent_id = ss["user_id"] /\ l.child_id = i}
        IN  /\ screen.students \subseteq own
            /\ \A g \in grades : g.id \in screen.shown => g.student_id \in own
            /\ screen.shown \subseteq {g.id : g \in grades}
            /\ (\A l \in parent_children : l.parent_id # ss["user_id"]) =>
                  screen.students = {} /\ screen.shown = {}

\* a parent sees the grades of a linked child while other students' grades
\* exist and one linked user is not a student
C2_Witness ==
    /\ screen.page = "parent_grades"
    /\ screen.shown # {}
    /\ \E g \in grades : g.id \notin screen.shown /\ users[g.student_id].role = "student"
    /\ \E l \in parent_children : l.parent_id = ss["user_id"] /\ users[l.child_id].role # "student"

(* C6: _delete_resource and _delete_online_session remove nothing but the  *)
(* row with the given id, and only when its teacher_id is the session      *)
(* user_id and its school_id the session school_id; otherwise both tables  *)
(* are unchanged.                                                          *)
C6_DeleteOwnOnly ==
    [][/\ \A id \in RowIds : DeleteResource(id) =>
            /\ online_sessions' = online_sessions
            /\ resources' \subseteq resources
            /\ \A r \in resources \ resources' :
                  /\ r.id = id
                  /\ r.teacher_id = ss["user_id"]
                  /\ r.school_id = ss["school_id"]
       /\ \A id \in RowIds : DeleteOnlineSession(id) =>
            /\ resources' = resources
            /\ online_sessions' \subseteq online_sessions
            /\ \A r \in online_sessions \ online_sessions' :
                  /\ r.id = id
                  /\ r.teacher_id = ss["user_id"]
                  /\ r.school_id = ss["school_id"]
      ]_vars

\* a teacher was refused the deletion of a row of a colleague of the same school
C6_Witness ==
    /\ ret.op = "delete_resource"
    /\ ~ret.result
    /\ ret.found
    /\ \E r \in resources : r.teacher_id # ss["user_id"] /\ r.school_id = ss["school_id"]
    /\ "Resource not found or access denied" \in screen.errors

(* C7: the student resources view lists exactly the resources of the       *)
(* session's school; the student classes view lists exactly the online     *)
(* sessions of that school scheduled at or after the time of the run, in   *)
(* ascending scheduled_time.                                               *)
C7_StudentScope ==
    /\ screen.page = "student_resources" =>
          screen.shown = {r.id : r \in {x \in resources : x.school_id = ss["school_id"]}}
    /\ screen.page = "student_classes" =>
          LET due == {c \in online_sessions :
                        c.school_id = ss["school_id"] /\ c.scheduled_time >= screen.at}
              row(id) == CHOOSE c \in online_sessions : c.id = id
          IN  /\ screen.shown = {c.id : c \in due}
              /\ {screen.order[i] : i \in DOMAIN screen.order} = screen.shown
              /\ Len(screen.order) = Cardinality(screen.shown)
              /\ \A i, j \in DOMAIN screen.order :
                    i < j => row(screen.order[i]).scheduled_time <= row(screen.order[j]).scheduled_time

\* a student is shown a class of their school while a past class of the
\* school and a class of another school are in the table
C7_Witness ==
    /\ screen.page = "student_classes"
    /\ screen.shown # {}
    /\ \E c \in online_sessions : c.school_id = ss["school_id"] /\ c.scheduled_time < screen.at
    /\ \E c \in online_sessions : c.school_id # ss["school_id"]

(* C8: show_admin_dashboard renders the master view or a school detail    *)
(* view only when the session role is super_admin.                         *)
C8_SuperAdminOnly ==
    screen.page \in {"admin_master", "admin_detail"} => Get(ss, "role", "None") = "super_admin"

(* C10: main() shows only the login page unless logged_in is True; logged  *)
(* in, exactly the dashboard of the role is rendered (super_admin,         *)
(* school_admin, admin: admin; teacher; student; parent) and any other     *)
(* role gets no dashboard and the Unknown role error.                      *)
C10_Routing ==
    screen.kind = "main" =>
        IF ~Get(ss, "logged_in", FALSE)
        THEN screen.page = "login_page" /\ screen.dashboards = {}
        ELSE LET role == Get(ss, "role", "None")
             IN  /\ screen.page # "login_page"
                 /\ role \in {"super_admin", "school_admin", "admin"} => screen.dashboards = {"admin"}
                 /\ role \in {"teacher", "student", "parent"} => screen.dashboards = {role}
                 /\ "Unknown role" \in screen.errors <=>
                       role \notin {"super_admin", "school_admin", "admin", "teacher", "student", "parent"}
                 /\ "Unknown role" \in screen.errors => screen.dashboards = {}

\* a logged-in session without a role was shown the Unknown role error
C10_Witness ==
    /\ screen.kind = "main"
    /\ Get(ss, "logged_in", FALSE)
    /\ "Unknown role" \in screen.errors

(* C5: school-level document isolation.  Whatever instances of whatever    *)
(* schools were created and ingested through, the vector store of an       *)
(* instance holds no chunk that was ingested through an instance of        *)
(* another school, and an instance reads and writes only the path made     *)
(* from its own school_id.                                                 *)
C5_SchoolIsolation ==
    \A i \in DOMAIN bots :
        /\ \A c \in bots[i].vector_store.chunks : c.origin = bots[i].school_id
        /\ \A j \in DOMAIN bots :
              bots[i].school_id # bots[j].school_id =>
                  bots[i].vector_store_path # bots[j].vector_store_path

\* an instance of one school was created after an instance of another
\* school had ingested and saved a document
C5_Witness ==
    \E i, j \in DOMAIN bots :
        /\ i < j
        /\ bots[i].school_id # bots[j].school_id
        /\ bots[i].kind = bots[j].kind
        /\ bots[i].vector_store.chunks # {}
        /\ bots[i].vector_store_path \in DOMAIN disk
        /\ bots[j].vector_store.chunks # {}

(* C11: logout clears the whole session.  After auth.logout() or           *)
(* app._logout() the session state holds no key at all, and the next run   *)
(* of main() shows the login page and no dashboard.                        *)
C11_LogoutClears ==
    [][/\ (AuthLogout \/ AppLogout) => DOMAIN ss' = {}
       /\ (MainRun /\ ret.op \in {"logout", "app_logout"}) =>
              /\ screen'.page = "login_page"
              /\ screen'.dashboards = {}
              /\ DOMAIN ss' = {"db_initialized"}]_vars

\* a logout has just run and left the session without keys
C11_Witness ==
    /\ ret.op \in {"logout", "app_logout"}
    /\ DOMAIN ss = {}

(* C12: every Grade row the grading form of the vision grader creates has  *)
(* the session school_id of the grading teacher as its school_id, and its  *)
(* student_id is the id of an active user with role student of that same   *)
(* school.                                                                 *)
C12_GradeInSchool ==
    [][(\E l \in StudentLabels : SubmitGrade(l)) =>
        \A g \in grades' \ grades :
            /\ Get(ss, "role", "None") = "teacher"
            /\ g.school_id = Get(ss, "school_id", NONE)
            /\ g.school_id = users[Get(ss, "user_id", NONE)].school_id
            /\ g.student_id \in UserIds
            /\ users[g.student_id].role = "student"
            /\ users[g.student_id].is_active = TRUE
            /\ users[g.student_id].school_id = g.school_id]_vars

\* the form has just saved a row, in a school that also has an inactive
\* student and while another school has students too
C12_Witness ==
    /\ ret.op = "save_grade"
    /\ ret.result = TRUE
    /\ screen.shown # {}
    /\ \E i \in UserIds : /\ users[i].role = "student"
                          /\ users[i].school_id = Get(ss, "school_id", NONE)
                          /\ users[i].is_active = FALSE
    /\ \E i \in UserIds : /\ users[i].role = "student"
                          /\ users[i].school_id \notin {NONE, Get(ss, "school_id", NONE)}

(* C13: tenant containment of school admins.  While the session that was   *)
(* opened with the credentials of a school_admin of school S stays logged  *)
(* in, whatever it does on the admin dashboard, its role is never          *)
(* super_admin and the school_id it holds is S.                            *)
C13_TenantContainment ==
    (/\ g_login # NONE
     /\ users[g_login].role = "school_admin"
     /\ Get(ss, "logged_in", FALSE)) =>
        /\ Get(ss, "role", "None") # "super_admin"
        /\ "school_id" \in DOMAIN ss => ss["school_id"] = users[g_login].school_id

(* C14: no lost update on concurrent ingestion.  Whatever the order of the *)
(* create and ingest-and-save steps of the RAGChatBot instances of a       *)
(* school, the index persisted for the school holds every chunk an         *)
(* instance of that school holds, so the chunks of every document set      *)
(* ingested so far.                                                        *)
C14_NoLostUpdate ==
    \A i \in DOMAIN bots :
        (bots[i].kind = "RAGChatBot" /\ bots[i].vector_store.chunks # {}) =>
            /\ bots[i].vector_store_path \in DOMAIN disk
            /\ bots[i].vector_store.chunks \subseteq disk[bots[i].vector_store_path]

====
